---- MODULE Spec2Model ----
(***************************************************************************)
(* T66 golden reference calibration (src/tools/mxt_app/gr.c).              *)
(*                                                                         *)
(* mxt_store_golden_refs resets the message state, resolves the address of *)
(* the T66 object and runs three commands (Prime, Generate, Store) through *)
(* mxt_gr_run_command; each command writes the control register and then   *)
(* waits in mxt_gr_get_status for the first T66 message.  The device, the  *)
(* wall clock and the transport are the environment.                       *)
(***************************************************************************)
EXTENDS Integers, Sequences, FiniteSets, TLC

----------------------------------------------------------------------------
(* Bounds of the model *)

\* longest stale of unread messages the channel holds
MaxQueue == 2
\* longest time one sleep(1) may take, in clock units
MaxTick == 2

----------------------------------------------------------------------------
(* Bytes: uint8_t values and the C operators & and | on them *)

Byte == 0..255

Bit(x, k) == (x \div (2 ^ k)) % 2

RECURSIVE BitAndUpTo(_, _, _)
BitAndUpTo(a, b, k) ==
  IF k < 0 THEN 0
  ELSE (2 ^ k) * Bit(a, k) * Bit(b, k) + BitAndUpTo(a, b, k - 1)

BitAnd(a, b) == BitAndUpTo(a, b, 7)

RECURSIVE BitOrUpTo(_, _, _)
BitOrUpTo(a, b, k) ==
  IF k < 0 THEN 0
  ELSE (2 ^ k) * (IF Bit(a, k) + Bit(b, k) > 0 THEN 1 ELSE 0)
       + BitOrUpTo(a, b, k - 1)

BitOr(a, b) == BitOrUpTo(a, b, 7)

----------------------------------------------------------------------------
(* Constants of gr.c *)

GR_CTRL == 0

GR_ENABLE == 1
GR_RPTEN == 2
GR_FCALCMD_PRIME == 4
GR_FCALCMD_GENERATE == 8
GR_FCALCMD_STORE == BitOr(GR_FCALCMD_PRIME, GR_FCALCMD_GENERATE)

GR_STATE_BADSTOREDATA == 1
GR_STATE_IDLE == 0
GR_STATE_PRIMED == 2
GR_STATE_GENERATED == 4
GR_STATE_FCALSTATE_MASK == BitOr(GR_STATE_PRIMED, GR_STATE_GENERATED)
GR_STATE_FCALSEQERR == 8
GR_STATE_FCALSEQTO == 16
GR_STATE_FCALSEQDONE == 32
GR_STATE_FCALPASS == 64
GR_STATE_FCALFAIL == 128

GR_TIMEOUT == 30

(* Constants of libmaxtouch used by gr.c *)

SPT_GOLDENREFERENCES_T66 == 66
GEN_COMMANDPROCESSOR_T6 == 6
TOUCH_MULTITOUCHSCREEN_T9 == 9
OBJECT_NOT_FOUND == 0

----------------------------------------------------------------------------
(* The environment: device, transport *)

\* report ids of the device's message-producing objects
RID_T6 == 1
RID_T9 == 2
RID_T66 == 3

ReportIds == {RID_T6, RID_T9, RID_T66}

\* report_id_to_type: the object type a report id belongs to
report_id_to_type(rid) ==
  CASE rid = RID_T6  -> GEN_COMMANDPROCESSOR_T6
    [] rid = RID_T66 -> SPT_GOLDENREFERENCES_T66
    [] OTHER         -> TOUCH_MULTITOUCHSCREEN_T9

\* status bytes the device puts in byte 1 of a T66 message
T66Bytes == {2, 32, 66, 68, 132, 196}
\* status byte of the T6 messages (CAL) and byte 1 of the T9 messages
T6Bytes == {16}
T9Bytes == {68}

PayloadOf(rid) ==
  CASE rid = RID_T6  -> T6Bytes
    [] rid = RID_T66 -> T66Bytes
    [] OTHER         -> T9Bytes

\* the messages the device sends: << report id, byte 1 >>
Msgs == {<< rid, b >> : rid \in ReportIds, b \in T66Bytes \cup T6Bytes \cup T9Bytes}
DeviceMsgs == {m \in Msgs : m[2] \in PayloadOf(m[1])}

\* the object a message is from, by its report id
FromT6(m) == m[1] = RID_T6
FromT66(m) == m[1] = RID_T66

\* register addresses get_object_address may return for T66
Addrs == {OBJECT_NOT_FOUND, 300}

\* negative values a failing transport call returns
IoErrs == {-1, -5}

----------------------------------------------------------------------------
(* The three calls mxt_store_golden_refs makes, lines 204-218 *)

Steps ==
  << [label |-> "Priming",    cmd |-> GR_FCALCMD_PRIME,
      wanted_fcal_state |-> GR_STATE_PRIMED,
      wanted_statebit   |-> GR_STATE_PRIMED],
     [label |-> "Generating", cmd |-> GR_FCALCMD_GENERATE,
      wanted_fcal_state |-> GR_STATE_GENERATED,
      wanted_statebit   |-> GR_STATE_FCALPASS],
     [label |-> "Storing",    cmd |-> GR_FCALCMD_STORE,
      wanted_fcal_state |-> GR_STATE_IDLE,
      wanted_statebit   |-> GR_STATE_FCALSEQDONE] >>

NumSteps == Len(Steps)

\* faulty variant: the report enable bit is left out
ComposeCmd_NoRpten(c) == BitOr(c, GR_ENABLE)

\* line 166: cmd |= GR_ENABLE | GR_RPTEN
ComposeCmd(c) == BitOr(c, BitOr(GR_ENABLE, GR_RPTEN))

\* faulty variant: the state is compared without the FCALSTATE mask
StateOk_NoMask(state, wanted_fcal_state, wanted_statebit) ==
  /\ state = wanted_fcal_state
  /\ BitAnd(state, wanted_statebit) # 0

\* faulty variant: the wanted state bit is not tested
StateOk_PhaseOnly(state, wanted_fcal_state, wanted_statebit) ==
  BitAnd(state, GR_STATE_FCALSTATE_MASK) = wanted_fcal_state

\* faulty variant: FCALFAIL counts as a result of the calibration too
StateOk_PassOrFail(state, wanted_fcal_state, wanted_statebit) ==
  /\ BitAnd(state, GR_STATE_FCALSTATE_MASK) = wanted_fcal_state
  /\ BitAnd(state, BitOr(wanted_statebit, GR_STATE_FCALFAIL)) # 0

\* faulty variant: every bit of wanted_statebit has to be set
StateOk_AllBits(state, wanted_fcal_state, wanted_statebit) ==
  /\ BitAnd(state, GR_STATE_FCALSTATE_MASK) = wanted_fcal_state
  /\ BitAnd(state, wanted_statebit) = wanted_statebit
  /\ wanted_statebit # 0

\* faulty variant: a state with a sequence error or timeout bit is refused
StateOk_NoSeqErr(state, wanted_fcal_state, wanted_statebit) ==
  /\ BitAnd(state, GR_STATE_FCALSTATE_MASK) = wanted_fcal_state
  /\ BitAnd(state, wanted_statebit) # 0
  /\ BitAnd(state, BitOr(GR_STATE_FCALSEQERR, GR_STATE_FCALSEQTO)) = 0

\* lines 177-178: the success test of mxt_gr_run_command
StateOk(state, wanted_fcal_state, wanted_statebit) ==
  /\ BitAnd(state, GR_STATE_FCALSTATE_MASK) = wanted_fcal_state
  /\ BitAnd(state, wanted_statebit) # 0

\* lines 177-186: what mxt_gr_run_command returns for the state it polled
CommandResult(state, wanted_fcal_state, wanted_statebit) ==
  IF StateOk(state, wanted_fcal_state, wanted_statebit) THEN 0 ELSE -1

\* faulty variant: the return value of mxt_gr_run_command is not looked at
Aborts_Never(r) == FALSE

\* faulty variant: only the value -1 is taken for a failure
Aborts_OnMinusOne(r) == r = -1

\* lines 207, 213, 219: if (ret < 0) return ret
Aborts(r) == r < 0

\* faulty variant: the address is not looked at
NotFound_Never(a) == FALSE

\* line 201: if (addr == OBJECT_NOT_FOUND)
NotFound(a) == a = OBJECT_NOT_FOUND

----------------------------------------------------------------------------
(* mxt_gr_print_state *)

\* a word of the printed line: s when the condition holds, "" otherwise
Word(cond, s) == IF cond THEN << s >> ELSE << >>

\* faulty variant: the words of the Primed and Generated states are exchanged
mxt_gr_print_state_Swapped(state) ==
     Word(BitAnd(state, GR_STATE_FCALFAIL) # 0, "FCALFAIL")
  \o Word(BitAnd(state, GR_STATE_FCALPASS) # 0, "FCALPASS")
  \o Word(BitAnd(state, GR_STATE_FCALSEQDONE) # 0, "FCALSEQDONE")
  \o Word(BitAnd(state, GR_STATE_FCALSEQTO) # 0, "FCALSEQTO")
  \o Word(BitAnd(state, GR_STATE_FCALSEQERR) # 0, "FCALSEQERR")
  \o Word(BitAnd(state, GR_STATE_FCALSTATE_MASK) = GR_STATE_IDLE, "Idle")
  \o Word(BitAnd(state, GR_STATE_FCALSTATE_MASK) = GR_STATE_PRIMED,
          "Generated")
  \o Word(BitAnd(state, GR_STATE_FCALSTATE_MASK) = GR_STATE_GENERATED,
          "Primed")
  \o Word(BitAnd(state, GR_STATE_BADSTOREDATA) # 0, "BADSTOREDATA")

\* lines 87-97: the words printed after "T66 state: %02X", in their order
mxt_gr_print_state(state) ==
     Word(BitAnd(state, GR_STATE_FCALFAIL) # 0, "FCALFAIL")
  \o Word(BitAnd(state, GR_STATE_FCALPASS) # 0, "FCALPASS")
  \o Word(BitAnd(state, GR_STATE_FCALSEQDONE) # 0, "FCALSEQDONE")
  \o Word(BitAnd(state, GR_STATE_FCALSEQTO) # 0, "FCALSEQTO")
  \o Word(BitAnd(state, GR_STATE_FCALSEQERR) # 0, "FCALSEQERR")
  \o Word(BitAnd(state, GR_STATE_FCALSTATE_MASK) = GR_STATE_IDLE, "Idle")
  \o Word(BitAnd(state, GR_STATE_FCALSTATE_MASK) = GR_STATE_GENERATED,
          "Generated")
  \o Word(BitAnd(state, GR_STATE_FCALSTATE_MASK) = GR_STATE_PRIMED,
          "Primed")
  \o Word(BitAnd(state, GR_STATE_BADSTOREDATA) # 0, "BADSTOREDATA")

----------------------------------------------------------------------------
VARIABLES
  pc,            \* position of the program
  step,          \* which mxt_gr_run_command call is running: 0 (none), 1..3
  addr,          \* addr of mxt_store_golden_refs
  cmd,           \* cmd, as passed to mxt_gr_run_command
  wanted_fcal_state, wanted_statebit,
  actual_state,  \* actual_state of mxt_gr_run_command
  ret,           \* the value mxt_store_golden_refs returns
  clock,         \* time(NULL), counted from the entry of the running poll
  start_time,    \* start_time of mxt_gr_get_status
  queue,         \* unread messages of the channel, oldest first
  stale,         \* the first T66 message of the queue, or the one the poll
                 \* has returned on, was sent before the latest write
  writes,        \* the register writes issued: <<address, byte, length>>
  out,           \* lines printed to stdout, as <<text, value>>
  result,        \* how each of the three commands ended
  got,           \* the message each poll returned on
  ignored,       \* the latest poll has read a message not from T66
  t6out,         \* the T6 status lines printed in the step just taken
  polled,        \* a message count query was made in this run
  cause,         \* why the run failed
  trial          \* one application of the pure parts (SpecFn)

vars == << pc, step, addr, cmd, wanted_fcal_state, wanted_statebit,
           actual_state, ret, clock, start_time, queue, stale,
           writes, out, result, got, ignored, t6out, polled, cause,
           trial >>

NoByte == -1
NoAddr == -1
NoMsg == << 0, NoByte >>
NoTrial == [f |-> "none", a |-> 0, b |-> 0, c |-> 0, ran |-> FALSE, r |-> 0]

InitProgram ==
  /\ pc = "reset"
  /\ step = 0
  /\ addr = NoAddr
  /\ cmd = 0
  /\ wanted_fcal_state = 0
  /\ wanted_statebit = 0
  /\ actual_state = NoByte
  /\ ret = 0
  /\ clock = 0
  /\ start_time = 0
  /\ queue = << >>
  /\ stale = FALSE
  /\ writes = << >>
  /\ out = << >>
  /\ result = [k \in 1..NumSteps |-> "none"]
  /\ got = [k \in 1..NumSteps |-> NoMsg]
  /\ ignored = FALSE
  /\ t6out = << >>
  /\ polled = FALSE
  /\ cause = "none"

Init ==
  /\ InitProgram
  /\ trial = NoTrial

----------------------------------------------------------------------------
(* The device *)

\* the device queues a message: << report id, byte 1 >>
DeviceSend ==
  /\ pc # "done"
  /\ Len(queue) < MaxQueue
  /\ \E rid \in ReportIds : \E b \in PayloadOf(rid) :
       queue' = Append(queue, << rid, b >>)
  /\ t6out' = << >>
  /\ UNCHANGED << pc, step, addr, cmd, wanted_fcal_state, wanted_statebit,
                  actual_state, ret, clock, start_time, stale, writes,
                  out, result, got, ignored, polled, cause, trial >>

----------------------------------------------------------------------------
(* mxt_store_golden_refs *)

\* the run ends with value r
Return(r, why) ==
  /\ pc' = "done"
  /\ ret' = r
  /\ cause' = why

\* the call of mxt_gr_run_command number k starts (lines 204-205, 210-211,
\* 216-217); o is what has been printed so far
Call(k, o) ==
  /\ step' = k
  /\ cmd' = Steps[k].cmd
  /\ wanted_fcal_state' = Steps[k].wanted_fcal_state
  /\ wanted_statebit' = Steps[k].wanted_statebit
  /\ out' = Append(o, << Steps[k].label, 0 >>)
  /\ pc' = "write"

\* lines 207-223: mxt_gr_run_command has returned r; o is what has been
\* printed so far
AfterCommand(r, why, o) ==
  IF Aborts(r)
    THEN /\ Return(r, why)
         /\ out' = o
         /\ UNCHANGED << step, cmd, wanted_fcal_state, wanted_statebit >>
    ELSE IF step < NumSteps
      THEN /\ Call(step + 1, o)
           /\ UNCHANGED << ret, cause >>
      ELSE /\ Return(0, "none")
           /\ out' = Append(o, << "Done", 0 >>)
           /\ UNCHANGED << step, cmd, wanted_fcal_state, wanted_statebit >>

\* lines 196-198: mxt_msg_reset
MsgReset ==
  /\ pc = "reset"
  /\ t6out' = << >>
  /\ \/ /\ queue' = << >>
        /\ pc' = "resolve"
        /\ UNCHANGED << ret, cause >>
     \/ /\ \E e \in IoErrs : Return(e, "reset")
        /\ UNCHANGED queue
  /\ UNCHANGED << step, addr, cmd, wanted_fcal_state, wanted_statebit,
                  actual_state, clock, start_time, stale, writes, out,
                  result, got, ignored, polled, trial >>

\* lines 200-205: get_object_address, then the first command
ResolveAddress ==
  /\ pc = "resolve"
  /\ t6out' = << >>
  /\ \E a \in Addrs :
       /\ addr' = a
       /\ IF NotFound(a)
            THEN /\ Return(-1, "notfound")
                 /\ UNCHANGED << step, cmd, wanted_fcal_state,
                                 wanted_statebit, out >>
            ELSE /\ Call(1, out)
                 /\ UNCHANGED << ret, cause >>
  /\ UNCHANGED << actual_state, clock, start_time, queue, stale, writes,
                  result, got, ignored, polled, trial >>

----------------------------------------------------------------------------
(* mxt_gr_run_command *)

\* lines 166-173: compose the command byte, write it, enter the poll
\* (line 106: start_time = time(NULL))
WriteCommand ==
  /\ pc = "write"
  /\ writes' = Append(writes, << addr + GR_CTRL, ComposeCmd(cmd), 1 >>)
  /\ stale' = (\E i \in 1..Len(queue) :
                 report_id_to_type(queue[i][1]) = SPT_GOLDENREFERENCES_T66)
  /\ t6out' = << >>
  /\ \/ /\ pc' = "poll"
        /\ clock' = 0
        /\ start_time' = clock'
        /\ ignored' = FALSE
        /\ UNCHANGED << step, cmd, wanted_fcal_state, wanted_statebit, ret,
                        cause, result, out >>
     \/ /\ \E e \in IoErrs : AfterCommand(e, "write", out)
        /\ result' = [result EXCEPT ![step] = "write"]
        /\ UNCHANGED << clock, start_time, ignored >>
  /\ UNCHANGED << addr, actual_state, queue, got, polled, trial >>

----------------------------------------------------------------------------
(* mxt_gr_get_status *)

\* faulty variant: a message of the command processor ends the wait too
IsT66_OrT6(m) ==
  report_id_to_type(m[1]) \in
    {SPT_GOLDENREFERENCES_T66, GEN_COMMANDPROCESSOR_T6}

\* line 134: the message is from the golden references object
IsT66(m) == report_id_to_type(m[1]) = SPT_GOLDENREFERENCES_T66

\* faulty variant: the branch is taken for every message not from T66
IsT6_Any(m) == TRUE

\* line 146: the message is from the command processor
IsT6(m) == report_id_to_type(m[1]) = GEN_COMMANDPROCESSOR_T6

\* line 142: *state = buf[1]
StateByte(m) == m[2]

\* lines 124-151: the for loop over a batch of n messages read from q, in
\* the order the channel hands them out; the place in q of the message the
\* loop returns on, 0 when it ends without one
RECURSIVE FirstT66From(_, _, _)
FirstT66From(q, n, k) ==
  IF k > n THEN 0
  ELSE IF IsT66(q[k]) THEN k
  ELSE FirstT66From(q, n, k + 1)

FirstT66(q, n) == FirstT66From(q, n, 1)

\* lines 124-151: what the for loop prints through mxt_gr_print_t6_state
\* (lines 146-149) while it reads the messages k..n of q, one line for each
\* T6 message it reads before it returns
RECURSIVE T6LinesFrom(_, _, _)
T6LinesFrom(q, n, k) ==
  IF k > n THEN << >>
  ELSE IF IsT66(q[k]) THEN << >>
  ELSE IF IsT6(q[k])
    THEN << << "T6 status", StateByte(q[k]) >> >> \o T6LinesFrom(q, n, k + 1)
  ELSE T6LinesFrom(q, n, k + 1)

T6Lines(q, n) == T6LinesFrom(q, n, 1)

\* faulty variant: the poll gives up at timeout_seconds already
TimedOut_AtLimit(now) == now - start_time >= GR_TIMEOUT

\* lines 113-118: the timeout check
TimedOut(now) == now - start_time > GR_TIMEOUT

\* faulty variant: a sleep during which the clock may stand still
SleepTicks_OrNone == 0..MaxTick

\* line 154: sleep(1), the units by which the clock moves on meanwhile
SleepTicks == 1..MaxTick

\* the poll returns: its locals are gone
LeavePoll ==
  /\ clock' = 0
  /\ start_time' = 0

\* lines 120-154: a turn of the while loop in which n messages are read
\* (the count query, the batch), then the return on a T66 message or
\* sleep(1), in which the clock moves on by at least one unit
Drain(n) ==
  LET hit  == FirstT66(queue, n)
      used == IF hit > 0 THEN hit ELSE n
  IN  /\ polled' = TRUE
      /\ queue' = SubSeq(queue, used + 1, Len(queue))
      /\ ignored' = (ignored \/ used > 1 \/ (used = 1 /\ hit = 0))
      /\ t6out' = T6Lines(queue, used)
      /\ IF hit > 0
           THEN /\ actual_state' = StateByte(queue[hit])
                /\ got' = [got EXCEPT ![step] = queue[hit]]
                /\ out' = Append(out, << "T66 state", actual_state' >>)
                /\ pc' = "check"
                /\ LeavePoll
           ELSE /\ \E d \in SleepTicks : clock' = clock + d
                /\ UNCHANGED << pc, start_time, actual_state, got, out >>
      /\ UNCHANGED << step, cmd, wanted_fcal_state, wanted_statebit, ret,
                      cause, result, stale >>

\* lines 113-118: the poll gives up
Timeout ==
  /\ result' = [result EXCEPT ![step] = "timeout"]
  /\ AfterCommand(-1, "timeout", Append(out, << "Timeout", 0 >>))
  /\ LeavePoll
  /\ t6out' = << >>
  /\ UNCHANGED << polled, queue, stale, ignored, actual_state, got >>

\* one turn of the while loop, lines 113-154.  All the messages queued are
\* read, or fewer of them when a call of the message channel fails:
\* mxt_get_msg_count hands back no count, mxt_get_msg_bytes no bytes
\* (len = 0, the message stays unread); the code has no other path for it.
PollTurn ==
  /\ pc = "poll"
  /\ IF TimedOut(clock)
       THEN Timeout
       ELSE \E n \in 0..Len(queue) : Drain(n)
  /\ UNCHANGED << addr, writes, trial >>

----------------------------------------------------------------------------
(* mxt_gr_run_command, after the poll; back in mxt_store_golden_refs *)

\* lines 177-186, then lines 207-223: the state test, and on success the
\* next command or the end of the run
CheckState ==
  /\ pc = "check"
  /\ t6out' = << >>
  /\ LET r == CommandResult(actual_state, wanted_fcal_state, wanted_statebit)
     IN  /\ result' = [result EXCEPT ![step] = IF r = 0 THEN "ok" ELSE "state"]
         /\ AfterCommand(r, "state",
              IF r = 0 THEN out
              ELSE Append(out, << "Failed to enter correct state", 0 >>))
  /\ UNCHANGED << addr, actual_state, clock, start_time, queue, stale,
                  writes, got, ignored, polled, trial >>

----------------------------------------------------------------------------
(* The caller *)

\* what the caller has of a finished run: the value returned, the text
Report == << ret, out >>

----------------------------------------------------------------------------
(* Specifications *)

Next ==
  \/ DeviceSend
  \/ MsgReset
  \/ ResolveAddress
  \/ WriteCommand
  \/ PollTurn
  \/ CheckState

Spec == Init /\ [][Next]_vars

\* a step of the program, as against one of the device
ProgramStep ==
  \/ MsgReset
  \/ ResolveAddress
  \/ WriteCommand
  \/ PollTurn
  \/ CheckState

----------------------------------------------------------------------------
(* The pure parts of mxt_gr_run_command, applied to every input *)

\* values of wanted_fcal_state and wanted_statebit tried
FcalStates == {0, 2, 4, 6}
StateBits == {0, 1, 2, 4, 8, 16, 32, 64, 128, 96, 192, 255}

TrialInputs ==
  {[f |-> "cmd", a |-> c, b |-> 0, c |-> 0, ran |-> FALSE, r |-> 0] :
     c \in Byte}
  \cup
  {[f |-> "test", a |-> st, b |-> w, c |-> m, ran |-> FALSE, r |-> 0] :
     st \in Byte, w \in FcalStates, m \in StateBits}
  \cup
  {[f |-> "print", a |-> st, b |-> 0, c |-> 0, ran |-> FALSE, r |-> 0] :
     st \in Byte}

\* the batches of up to MaxQueue messages
Batches == UNION {[1..k -> DeviceMsgs] : k \in 0..MaxQueue}

\* the messages from T66 of a batch, in their order
T66Only(q) == SelectSeq(q, FromT66)

\* two batches with the same messages from T66, whatever else is in them
BatchPairs ==
  UNION {{[f |-> "loop", a |-> q1, b |-> q2, c |-> 0, ran |-> FALSE, r |-> 0] :
            q2 \in {q \in Batches : T66Only(q) = T66Only(q1)}} :
         q1 \in Batches}

InitFn ==
  /\ InitProgram
  /\ \/ trial \in TrialInputs \cup {NoTrial}
     \/ trial \in BatchPairs

\* line 166 applied to trial.a
ComposeTrial ==
  /\ trial.f = "cmd"
  /\ ~trial.ran
  /\ trial' = [trial EXCEPT !.ran = TRUE, !.r = ComposeCmd(trial.a)]
  /\ UNCHANGED << pc, step, addr, cmd, wanted_fcal_state, wanted_statebit,
                  actual_state, ret, clock, start_time, queue, stale,
                  writes, out, result, got, ignored, t6out, polled,
                  cause >>

\* lines 177-186 applied to the state trial.a, wanted_fcal_state trial.b
\* and wanted_statebit trial.c
TestTrial ==
  /\ trial.f = "test"
  /\ ~trial.ran
  /\ trial' = [trial EXCEPT !.ran = TRUE,
                             !.r = CommandResult(trial.a, trial.b, trial.c)]
  /\ UNCHANGED << pc, step, addr, cmd, wanted_fcal_state, wanted_statebit,
                  actual_state, ret, clock, start_time, queue, stale,
                  writes, out, result, got, ignored, t6out, polled,
                  cause >>

\* lines 85-98 applied to the state trial.a
PrintTrial ==
  /\ trial.f = "print"
  /\ ~trial.ran
  /\ trial' = [trial EXCEPT !.ran = TRUE, !.r = mxt_gr_print_state(trial.a)]
  /\ UNCHANGED << pc, step, addr, cmd, wanted_fcal_state, wanted_statebit,
                  actual_state, ret, clock, start_time, queue, stale,
                  writes, out, result, got, ignored, t6out, polled,
                  cause >>

\* lines 124-151: what the for loop over the batch q hands to its caller:
\* whether it returns, and the state it returns
LoopOutcome(q) ==
  LET hit == FirstT66(q, Len(q))
  IN  [returned |-> hit > 0,
       state    |-> IF hit > 0 THEN StateByte(q[hit]) ELSE NoByte]

\* lines 124-151 applied to the batch trial.a and to the batch trial.b
LoopTrial ==
  /\ trial.f = "loop"
  /\ ~trial.ran
  /\ trial' = [trial EXCEPT !.ran = TRUE,
                             !.r = << LoopOutcome(trial.a),
                                      LoopOutcome(trial.b) >>]
  /\ UNCHANGED << pc, step, addr, cmd, wanted_fcal_state, wanted_statebit,
                  actual_state, ret, clock, start_time, queue, stale,
                  writes, out, result, got, ignored, t6out, polled,
                  cause >>

RunProgram == trial.f = "none" /\ Next

NextFn ==
  \/ RunProgram
  \/ ComposeTrial
  \/ TestTrial
  \/ PrintTrial
  \/ LoopTrial

SpecFn == InitFn /\ [][NextFn]_vars

----------------------------------------------------------------------------
(* The calibration state as the specification documents it: bit 0        *)
(* badStoredData, bits 1-2 the phase (00 Idle, 01 Primed, 10 Generated,   *)
(* 11 reserved), bit 3 sequenceError, bit 4 sequenceTimeout, bit 5        *)
(* sequenceDone, bit 6 fcalPass, bit 7 fcalFail                           *)

Phase(b) ==
  CASE Bit(b, 2) = 0 /\ Bit(b, 1) = 0 -> "Idle"
    [] Bit(b, 2) = 0 /\ Bit(b, 1) = 1 -> "Primed"
    [] Bit(b, 2) = 1 /\ Bit(b, 1) = 0 -> "Generated"
    [] OTHER                          -> "Reserved"

sequenceDone(b) == Bit(b, 5) = 1
fcalPass(b) == Bit(b, 6) = 1
fcalFail(b) == Bit(b, 7) = 1

\* the state the poll of command k returned, and whether it was tested
GotByte(k) == got[k][2]
Polled(k) == got[k] # NoMsg
Checked(k) == result[k] \in {"ok", "state"}

\* the command bytes of Prime, Generate and Store
CommandBytes == << 7, 11, 15 >>

----------------------------------------------------------------------------
(* C1 *)

\* the run in which the device answers the three writes with a, b and c
\* goes through: each command that got its answer succeeded, and the run
\* returned 0
Answered(a, b, c) ==
  /\ (Checked(1) /\ GotByte(1) = a
        => result[1] = "ok" /\ writes[1][2] = CommandBytes[1])
  /\ (Checked(2) /\ GotByte(1) = a /\ GotByte(2) = b
        => result[2] = "ok" /\ writes[2][2] = CommandBytes[2])
  /\ (Checked(3) /\ GotByte(1) = a /\ GotByte(2) = b /\ GotByte(3) = c
        => /\ result[3] = "ok" /\ writes[3][2] = CommandBytes[3]
           /\ pc = "done" /\ ret = 0)

\* C1 as stated: with the answers 0x02 to Prime, 0x42 to Generate and 0x20
\* to Store, the three commands succeed and the run returns success
C1_ScenarioAsStated == Answered(2, 66, 32)

\* C1, amended: with the answers 0x02 to Prime, 0x44 (phase Generated,
\* fcalPass) to Generate and 0x20 to Store, the three commands succeed and
\* the run returns success
C1_Scenario == Answered(2, 68, 32)

C1_Witness ==
  /\ pc = "done" /\ ret = 0
  /\ GotByte(1) = 2 /\ GotByte(2) = 68 /\ GotByte(3) = 32

----------------------------------------------------------------------------
(* C2 *)

Failed(k) == result[k] \in {"write", "timeout", "state"}

\* C2: at most three writes, Prime, Generate, Store in that order; a
\* command is written only after every earlier one succeeded, and a failed
\* command ends the run, with no write after it
C2_WritesInOrder ==
  /\ Len(writes) <= NumSteps
  /\ \A k \in 1..Len(writes) : writes[k][2] = CommandBytes[k]
  /\ \A k \in 1..Len(writes) : \A j \in 1..(k - 1) : result[j] = "ok"
  /\ \A k \in 1..NumSteps :
       Failed(k) => pc = "done" /\ ret < 0 /\ Len(writes) = k

C2_Witness ==
  /\ pc = "done"
  /\ result[1] = "ok" /\ result[2] = "state" /\ Len(writes) = 2

----------------------------------------------------------------------------
(* C3 *)

AllValidated ==
  /\ Polled(1) /\ Phase(GotByte(1)) = "Primed"
  /\ Polled(2) /\ Phase(GotByte(2)) = "Generated" /\ fcalPass(GotByte(2))
  /\ Polled(3) /\ Phase(GotByte(3)) = "Idle" /\ sequenceDone(GotByte(3))

\* C3: the run returns 0 exactly when the three polls returned, in order,
\* a state with phase Primed, one with phase Generated and fcalPass, and
\* one with phase Idle and sequenceDone; otherwise it returns a negative
\* value
C3_SuccessIffValidated ==
  pc = "done" =>
    /\ (ret = 0 <=> AllValidated)
    /\ (ret # 0 => ret < 0)

C3_Witness ==
  /\ pc = "done" /\ ret = 0 /\ AllValidated
  /\ GotByte(2) = 196

----------------------------------------------------------------------------
(* C4 *)

\* in a run, the Generate command fails on a first T66 state that meets
\* `rejected`, and Store is never written
GenerateRejects(rejected(_)) ==
  Checked(2) /\ rejected(GotByte(2))
    => /\ result[2] = "state"
       /\ pc = "done" /\ ret < 0 /\ Len(writes) = 2

\* the same of the test of the Generate call alone, for every state byte
GenerateTestRejects(rejected(_)) ==
  (trial.f = "test" /\ trial.ran /\ rejected(trial.a)
     /\ trial.b = Steps[2].wanted_fcal_state
     /\ trial.c = Steps[2].wanted_statebit)
    => trial.r < 0

GeneratedAndFail(b) == Phase(b) = "Generated" /\ fcalFail(b)
GeneratedFailNoPass(b) == GeneratedAndFail(b) /\ ~fcalPass(b)

\* C4 as stated: a first T66 state with phase Generated and fcalFail set
\* fails Generate, and Store is never written, whatever its other bits
C4_FcalFailAsStated == GenerateRejects(GeneratedAndFail)

\* C4, amended: a first T66 state with phase Generated, fcalFail set and
\* fcalPass clear fails Generate, and Store is never written, whatever its
\* other bits
C4_FcalFail ==
  /\ GenerateRejects(GeneratedFailNoPass)
  /\ GenerateTestRejects(GeneratedFailNoPass)

C4_Witness ==
  /\ pc = "done" /\ result[2] = "state" /\ GotByte(2) = 132
  /\ Len(writes) = 2

----------------------------------------------------------------------------
(* C5 *)

\* C5: a poll returns success only on a T66 message it has read, with byte
\* 1 of that message as the state; a poll that has read no T66 message
\* goes on or ends in the timeout, and the run returns -1
C5_OnlyT66EndsWait ==
  /\ pc = "check" => got[step][1] = RID_T66 /\ actual_state = got[step][2]
  /\ \A k \in 1..NumSteps : Checked(k) => got[k][1] = RID_T66
  /\ \A k \in 1..NumSteps :
       result[k] = "timeout" => got[k] = NoMsg /\ pc = "done" /\ ret = -1
  /\ pc = "poll" => got[step] = NoMsg

C5_Witness ==
  /\ pc = "done" /\ result[1] = "timeout" /\ ignored /\ got[1] = NoMsg

----------------------------------------------------------------------------
(* C6 *)

\* C6: with OBJECT_NOT_FOUND for the address the run is over at once, with
\* a failure, no register write and no poll
C6_NotFoundNoIo ==
  addr = OBJECT_NOT_FOUND =>
    /\ pc = "done" /\ ret < 0
    /\ step = 0 /\ writes = << >> /\ ~polled

C6_Witness == pc = "done" /\ addr = OBJECT_NOT_FOUND

----------------------------------------------------------------------------
(* C7 *)

\* C7: the byte composed from any command has bits 0 and 1 set and the
\* other bits as passed; the writes of a run are the single bytes 0x07,
\* 0x0B, 0x0F at the address of the object
C7_CommandBytes ==
  /\ (trial.f = "cmd" /\ trial.ran
        => /\ Bit(trial.r, 0) = 1 /\ Bit(trial.r, 1) = 1
           /\ \A k \in 2..7 : Bit(trial.r, k) = Bit(trial.a, k)
           /\ trial.r \in Byte)
  /\ \A j \in 1..Len(writes) : writes[j] = << addr, CommandBytes[j], 1 >>

C7_Witness ==
  trial.f = "cmd" /\ trial.ran /\ trial.a = 24 /\ trial.r = 27

----------------------------------------------------------------------------
(* C8 *)

\* a turn of the poll in which a call of the message channel fails: fewer
\* messages are read than are queued, and none of them is from T66
DrainFails ==
  /\ pc = "poll" /\ ~TimedOut(clock)
  /\ \E n \in 0..(Len(queue) - 1) :
       /\ FirstT66(queue, n) = 0
       /\ queue' = SubSeq(queue, n + 1, Len(queue))
       /\ writes' = writes

\* C8: a failure of the message channel in the poll ends the poll and the
\* run at once, with an error
C8_DrainFailureEndsRun ==
  [][DrainFails => pc' = "done" /\ ret' < 0]_vars

----------------------------------------------------------------------------
(* C9 *)

\* what the caller has of a run that failed because T66 is absent (lines
\* 201-202): -1, and nothing printed
NotFoundReport == << -1, << >> >>

\* C9: a failed run tells the caller its cause; so the report of an absent
\* T66 object is the report of no other failure
C9_CauseTold ==
  pc = "done" /\ ret < 0 =>
    (Report = NotFoundReport <=> cause = "notfound")

----------------------------------------------------------------------------
(* C10 *)

PhaseBitsEqual(b, w) ==
  /\ Bit(b, 1) = Bit(w, 1) /\ Bit(b, 2) = Bit(w, 2)
  /\ \A k \in {0, 3, 4, 5, 6, 7} : Bit(w, k) = 0

BitsOf(m) == {k \in 0..7 : Bit(m, k) = 1}
AllBitsSet(b, m) == BitsOf(m) \subseteq BitsOf(b)
SomeBitSet(b, m) == BitsOf(m) \cap BitsOf(b) # {}

\* the three commands of a run succeed exactly when the phase bits are
\* the wanted ones and the wanted state bit is set
RunTestsAllBits ==
  \A k \in 1..NumSteps :
    Checked(k) =>
      (result[k] = "ok" <=>
         /\ PhaseBitsEqual(GotByte(k), Steps[k].wanted_fcal_state)
         /\ AllBitsSet(GotByte(k), Steps[k].wanted_statebit))

\* C10 as stated: for every wanted state, flag mask and state byte the
\* command succeeds exactly when the phase bits are the wanted ones and
\* all bits of the mask are set
C10_AllBitsAsStated ==
  /\ (trial.f = "test" /\ trial.ran
        => (trial.r = 0 <=> /\ PhaseBitsEqual(trial.a, trial.b)
                            /\ AllBitsSet(trial.a, trial.c)))
  /\ RunTestsAllBits

\* C10, amended: for every wanted state, flag mask and state byte the
\* command succeeds exactly when the phase bits are the wanted ones and
\* at least one bit of the mask is set, which for a mask of one bit, as in
\* the three calls of a run, is all bits of the mask
C10_SomeBit ==
  /\ (trial.f = "test" /\ trial.ran
        => /\ trial.r \in {0, -1}
           /\ (trial.r = 0 <=> /\ PhaseBitsEqual(trial.a, trial.b)
                               /\ SomeBitSet(trial.a, trial.c))
           /\ (Cardinality(BitsOf(trial.c)) = 1
                 => (trial.r = 0 <=> /\ PhaseBitsEqual(trial.a, trial.b)
                                     /\ AllBitsSet(trial.a, trial.c))))
  /\ RunTestsAllBits

C10_Witness ==
  /\ trial.f = "test" /\ trial.ran /\ trial.r = 0
  /\ trial.a = 36 /\ trial.b = 4 /\ trial.c = 96

----------------------------------------------------------------------------
(* C11 *)

Words(sq) == {sq[i] : i \in 1..Len(sq)}

PhaseWords == {"Idle", "Primed", "Generated"}

\* the phase a printed line tells: the phase word in it, Reserved when it
\* has none
PrintedPhases(sq) ==
  IF Words(sq) \cap PhaseWords = {} THEN {"Reserved"}
  ELSE Words(sq) \cap PhaseWords

\* the wanted_fcal_state of a phase
FcalStateOf(ph) ==
  CASE ph = "Idle"      -> GR_STATE_IDLE
    [] ph = "Primed"    -> GR_STATE_PRIMED
    [] ph = "Generated" -> GR_STATE_GENERATED
    [] OTHER            -> GR_STATE_FCALSTATE_MASK

FlagWords ==
  << "BADSTOREDATA", "", "", "FCALSEQERR", "FCALSEQTO", "FCALSEQDONE",
     "FCALPASS", "FCALFAIL" >>

\* C11: for each of the 256 state bytes the printed line tells exactly one
\* phase, the one of bits 1-2, and the word of each flag exactly when its
\* bit (0, 3, 4, 5, 6, 7) is set, each word once; the mask test of
\* mxt_gr_run_command accepts the byte for the wanted state of that phase
\* and for no other
C11_Decoding ==
  /\ (trial.f = "print" /\ trial.ran
        => /\ PrintedPhases(trial.r) = {Phase(trial.a)}
           /\ \A k \in {0, 3, 4, 5, 6, 7} :
                (FlagWords[k + 1] \in Words(trial.r)) <=> (Bit(trial.a, k) = 1)
           /\ \A i, j \in 1..Len(trial.r) : trial.r[i] = trial.r[j] => i = j
           /\ Words(trial.r) \subseteq
                PhaseWords \cup {FlagWords[k + 1] : k \in {0, 3, 4, 5, 6, 7}})
  /\ (trial.f = "test" /\ trial.ran /\ trial.c = 255 /\ trial.a # 0
        => (trial.r = 0 <=> trial.b = FcalStateOf(Phase(trial.a))))

C11_Witness ==
  /\ trial.f = "print" /\ trial.ran /\ trial.a = 198
  /\ trial.r = << "FCALFAIL", "FCALPASS" >>

----------------------------------------------------------------------------
(* C12 *)

\* a line for each T6 message of sq, in the order of sq
T6StatusLines(sq) ==
  LET t6 == SelectSeq(sq, FromT6)
  IN  [i \in 1..Len(t6) |-> << "T6 status", t6[i][2] >>]

\* a step of the poll that is not the device's: a turn of the while loop
PollStep == pc = "poll" /\ Len(queue') <= Len(queue)

\* the messages the step has taken out of the channel
Consumed == SubSeq(queue, 1, Len(queue) - Len(queue'))

\* C12: a turn of the poll takes messages from the head of the channel, in
\* the order of delivery, and leaves the others as they are; it prints a
\* line for every T6 message it takes; it returns exactly when it takes a
\* T66 message, which is then the last one it takes and the only one from
\* T66, and whose byte 1 is the state handed back; every message behind it
\* is still in the channel
C12_ConsumedInOrder ==
  [][PollStep =>
       /\ queue = Consumed \o queue'
       /\ t6out' = T6StatusLines(Consumed)
       /\ (pc' = "check" <=> \E i \in 1..Len(Consumed) : FromT66(Consumed[i]))
       /\ \A i \in 1..(Len(Consumed) - 1) : ~FromT66(Consumed[i])
       /\ (pc' = "check" =>
             /\ got'[step] = Consumed[Len(Consumed)]
             /\ actual_state' = Consumed[Len(Consumed)][2]
             /\ step' = step)]_vars

\* the poll has returned on a T66 message it read behind a T6 message, of
\* which it printed the line
C12_Witness ==
  /\ pc = "check" /\ t6out = << << "T6 status", 16 >> >>
  /\ got[step][1] = RID_T66 /\ queue = << >>

----------------------------------------------------------------------------
(* C13 *)

\* C13: the T66 message a poll returns on was sent after the write of the
\* command the poll belongs to
C13_AnswerIsFresh == pc = "check" => ~stale

----------------------------------------------------------------------------
(* C14 *)

\* the time since the running poll began, at the timeout check of a turn
Elapsed == clock - start_time

\* C14: a turn of the poll taken when more than GR_TIMEOUT units have gone
\* by since the poll began ends it with the timeout, and no message is
\* read, let alone accepted; a turn taken at GR_TIMEOUT units or less,
\* the first one included, never ends it with the timeout, and returns on
\* the T66 message it reads; the time is counted from the poll's own start
C14_TimeoutPerPoll ==
  [][PollStep =>
       /\ (Elapsed > GR_TIMEOUT
             => /\ result'[step] = "timeout"
                /\ pc' # "check" /\ queue' = queue /\ got' = got)
       /\ (Elapsed <= GR_TIMEOUT
             => /\ result'[step] # "timeout"
                /\ ((\E i \in 1..Len(Consumed) : FromT66(Consumed[i]))
                      => pc' = "check"))
       /\ (pc' = "poll" => start_time' = start_time /\ clock' > clock)]_vars
  /\ [][pc # "poll" /\ pc' = "poll" => start_time' = clock' /\ Elapsed' = 0]_vars

\* the third poll has run into its timeout after two polls that returned
C14_Witness ==
  /\ pc = "done" /\ result[1] = "ok" /\ result[2] = "ok"
  /\ result[3] = "timeout" /\ Len(writes) = 3

----------------------------------------------------------------------------
(* C15 *)

\* the turns a poll can take at most: the clock moves on by one unit at
\* least in each turn, and the turn above GR_TIMEOUT is the last
MaxTurns == GR_TIMEOUT + MaxTick + 2

\* the steps a command can take at most: the write, the turns, the test
MaxCommandSteps == MaxTurns + 2

\* a bound on the steps the program has yet to take
StepsLeft ==
  CASE pc = "done"    -> 0
    [] pc = "reset"   -> NumSteps * MaxCommandSteps + 2
    [] pc = "resolve" -> NumSteps * MaxCommandSteps + 1
    [] pc = "write"   -> (NumSteps - step + 1) * MaxCommandSteps
    [] pc = "poll"    -> (NumSteps - step) * MaxCommandSteps + 1
                           + (MaxTurns - Elapsed)
    [] OTHER          -> (NumSteps - step) * MaxCommandSteps + 1

\* the step is one of the program: the device's steps, and only they, add
\* a message to the channel
ProgramStepTaken == Len(queue') <= Len(queue)

\* C15: every run comes to its end, whatever the device sends and whether
\* it sends at all: until the run has ended the program can take a step
\* (every call returns, every sleep ends), and each step it takes, a turn
\* of a poll in which only messages not from T66 are read included, lowers
\* a bound on the steps yet to take, which is never below 0; a poll is over
\* with the first turn taken above GR_TIMEOUT
C15_RunEnds ==
  /\ [](StepsLeft \in Nat)
  /\ []((pc # "done") <=> ENABLED ProgramStep)
  /\ [][ProgramStepTaken => StepsLeft' < StepsLeft]_vars
  /\ [][PollStep /\ Elapsed > GR_TIMEOUT => pc' # "poll" \/ step' # step]_vars

\* the run has ended in the timeout of the second poll, in which messages
\* not from T66 were read
C15_Witness ==
  /\ pc = "done" /\ ret = -1
  /\ result[1] = "ok" /\ result[2] = "timeout" /\ ignored

----------------------------------------------------------------------------
(* C16 *)

\* C16: two batches that differ only in their messages from T6 and from
\* other objects, in number and in place, have the same outcome: both make
\* the poll return, with the same state, or neither does; and the state is
\* that of the first T66 message, none without one
C16_OnlyT66Decides ==
  trial.f = "loop" /\ trial.ran =>
    /\ trial.r[1] = trial.r[2]
    /\ trial.r[1].returned = (T66Only(trial.a) # << >>)
    /\ (trial.r[1].returned => trial.r[1].state = T66Only(trial.a)[1][2])

\* a T66 message alone and the same message behind one from T6 and one from
\* T9 (behind one from T6 with batches of two)
C16_Witness ==
  /\ trial.f = "loop" /\ trial.ran
  /\ trial.a = << << RID_T66, 68 >> >>
  /\ Len(trial.b) > 1 /\ trial.b[1] = << RID_T6, 16 >>
  /\ trial.b[Len(trial.b)] = << RID_T66, 68 >>
  /\ trial.r[1].returned /\ trial.r[2].state = 68

----------------------------------------------------------------------------
(* C17 *)

\* the write of the running command fails in this step
WriteFails == pc = "write" /\ result'[step] = "write"

\* C17: a command whose write fails ends the run at once with the error of
\* the write: no poll is made for it and no message is taken from the
\* channel, no later command is started or written
C17_WriteFailureEndsRun ==
  /\ [][WriteFails =>
          /\ pc' = "done" /\ ret' \in IoErrs /\ cause' = "write"
          /\ queue' = queue /\ polled' = polled /\ got' = got
          /\ step' = step /\ Len(writes') = step]_vars
  /\ [](\A k \in 1..NumSteps :
          result[k] = "write" =>
            /\ pc = "done" /\ ret \in IoErrs /\ got[k] = NoMsg
            /\ Len(writes) = k
            /\ \A j \in (k + 1)..NumSteps :
                 result[j] = "none" /\ got[j] = NoMsg)

\* the write of Generate has failed with -5, which the run has returned
C17_Witness ==
  /\ pc = "done" /\ ret = -5 /\ cause = "write"
  /\ result[1] = "ok" /\ result[2] = "write" /\ result[3] = "none"

----------------------------------------------------------------------------
(* C18 *)

\* what each of the three commands asks of the state: the phase, and the
\* one flag
Asked(k, b) ==
  CASE k = 1 -> Phase(b) = "Primed"
    [] k = 2 -> Phase(b) = "Generated" /\ fcalPass(b)
    [] OTHER -> Phase(b) = "Idle" /\ sequenceDone(b)

\* C18: each of the three commands succeeds on a state byte exactly when
\* the byte has the phase and the flag the command asks for, whatever its
\* other bits (badStoredData, sequenceError, sequenceTimeout, fcalFail, and
\* the flags of the other commands) are
C18_OtherBitsIgnored ==
  /\ \A k \in 1..NumSteps :
       (trial.f = "test" /\ trial.ran
          /\ trial.b = Steps[k].wanted_fcal_state
          /\ trial.c = Steps[k].wanted_statebit)
         => (trial.r = 0 <=> Asked(k, trial.a))
  /\ \A k \in 1..NumSteps :
       Checked(k) => (result[k] = "ok" <=> Asked(k, GotByte(k)))

\* Store tested on a state with phase Idle and sequenceDone, and with
\* badStoredData, sequenceError, sequenceTimeout and fcalFail set
C18_Witness ==
  /\ trial.f = "test" /\ trial.ran /\ trial.a = 185
  /\ trial.b = GR_STATE_IDLE /\ trial.c = GR_STATE_FCALSEQDONE
  /\ trial.r = 0

====
